---- MODULE Spec2Model ----
(***************************************************************************)
(* Model of the two front ends of video-subtitles:                         *)
(*   - cli.py : parse_languages, ensure_dependencies, parse_args,          *)
(*              validate_api_key, main                                     *)
(*   - gui.py : MainWidget.save_settings, MainWidget.dropEvent,            *)
(*              run_gui.callback, run_gui.callback._generate_subtitles     *)
(* Strings are sequences of one-character strings, so that str.split and   *)
(* str.strip are computed the way Python computes them.                    *)
(***************************************************************************)
EXTENDS Integers, Sequences, FiniteSets, TLC

VARIABLES
    lang_in,      \* parse_languages: the --languages string under test
    lang_out,     \* parse_languages: its outcome, or Pending
    argv,         \* cli: the command line given to main()
    env,          \* cli: file system, hardware, key file, prompt and run() outcome
    cli_pc,       \* cli: position inside main()
    api_key,      \* cli: main's local api_key
    key_file,     \* cli: contents of api_key.txt (Missing when the file is absent)
    warned,       \* cli: warnings.warn has been called
    run_calls,    \* cli: the calls of run() made so far (their arguments)
    exit_code,    \* cli: <<>> while running, <<status>> once the process has exited
    exit_cause,   \* cli: how the process ended
    preflight,    \* both: outcome of ensure_dependencies in this process
    fields,       \* gui: the widget's input fields
    settings,     \* gui: the persisted settings store
    gui_pc,       \* gui: position of the GUI thread
    pending,      \* gui: files of the current drop not yet handed to the callback
    jobs,         \* gui: one record per thread created by callback
    cwd           \* gui: the process-wide current working directory

vars == <<lang_in, lang_out, argv, env, cli_pc, api_key, key_file, warned,
          run_calls, exit_code, exit_cause, preflight, fields, settings, gui_pc, pending,
          jobs, cwd>>

lang_vars == <<lang_in, lang_out>>
cli_vars == <<argv, env, cli_pc, api_key, key_file, warned, run_calls, exit_code,
              exit_cause>>
gui_vars == <<fields, settings, gui_pc, pending, jobs, cwd>>

(***************************************************************************)
(* Bounds                                                                  *)
(***************************************************************************)
\* longest --languages string enumerated for parse_languages
MaxLen == 5
\* number of jobs the drag-and-drop front end submits in one behaviour
MaxJobs == 2

(***************************************************************************)
(* Values                                                                  *)
(***************************************************************************)
\* Python's None where a string is expected, and an absent file: one-element
\* sequences that no string of characters equals
None == <<"<None>">>
Missing == <<"<Missing>">>

\* the characters the enumerated --languages strings are built from
Chars == {"e", "n", "s", ",", " "}

Str_en == <<"e", "n">>
Str_es == <<"e", "s">>
Str_fr == <<"f", "r">>
Str_de == <<"d", "e">>
Str_it == <<"i", "t">>
Str_pt == <<"p", "t">>
Str_ru == <<"r", "u">>
Str_zh == <<"z", "h">>
Str_free == <<"f", "r", "e", "e">>

LANGUAGE_CODES == {Str_en, Str_es, Str_fr, Str_de, Str_it, Str_pt, Str_ru, Str_zh}

\* all strings over Chars of length at most n
StringsUpTo(n) == UNION {[1..k -> Chars] : k \in 0..n}

(***************************************************************************)
(* str.split(","), str.strip() and ",".join()                              *)
(***************************************************************************)
RECURSIVE SplitFrom(_, _, _)
SplitFrom(s, i, cur) ==
    IF i > Len(s) THEN <<cur>>
    ELSE IF s[i] = "," THEN <<cur>> \o SplitFrom(s, i + 1, <<>>)
    ELSE SplitFrom(s, i + 1, Append(cur, s[i]))

Split(s) == SplitFrom(s, 1, <<>>)

RECURSIVE LStrip(_)
LStrip(s) ==
    IF s # <<>> /\ Head(s) = " " THEN LStrip(Tail(s)) ELSE s

RECURSIVE RStrip(_)
RStrip(s) ==
    IF s # <<>> /\ s[Len(s)] = " " THEN RStrip(SubSeq(s, 1, Len(s) - 1)) ELSE s

Strip(s) == RStrip(LStrip(s))

RECURSIVE Join(_)
Join(L) ==
    IF L = <<>> THEN <<>>
    ELSE IF Len(L) = 1 THEN L[1]
    ELSE L[1] \o <<",">> \o Join(Tail(L))

\* [lang.strip() for lang in languages]
StripEach(L) == [i \in 1..Len(L) |-> Strip(L[i])]

(***************************************************************************)
(* cli.parse_languages                                                     *)
(***************************************************************************)
Raised(kind) == [ok |-> FALSE, value |-> <<>>, error |-> kind]
Returned(v) == [ok |-> TRUE, value |-> v, error |-> "none"]
\* the function has not been applied yet
Pending == [ok |-> FALSE, value |-> <<>>, error |-> "pending"]

\* a variant that drops the invalid elements instead of raising
parse_languages_skip(languages_str) ==
    Returned(SelectSeq(Split(languages_str), LAMBDA l : l \in LANGUAGE_CODES))

parse_languages(languages_str) ==
    LET languages == Split(languages_str)
    IN  IF \E i \in 1..Len(languages) : languages[i] \notin LANGUAGE_CODES
        THEN Raised("ArgumentTypeError")
        ELSE Returned(languages)

\* the front ends' variables while only parse_languages is exercised
CliOff ==
    /\ argv = <<>> /\ env = <<>> /\ cli_pc = "off" /\ api_key = None
    /\ key_file = Missing /\ warned = FALSE /\ run_calls = <<>>
    /\ exit_code = <<>> /\ exit_cause = "running"

GuiOff ==
    /\ fields = <<>> /\ settings = <<>> /\ gui_pc = "off" /\ pending = <<>>
    /\ jobs = <<>> /\ cwd = "off"

LangOff == lang_in = <<>> /\ lang_out = Pending

InitLang ==
    /\ lang_in \in StringsUpTo(MaxLen)
    /\ lang_out = Pending
    /\ preflight = "not_run"
    /\ CliOff
    /\ GuiOff

ApplyParseLanguages ==
    /\ lang_out = Pending
    /\ lang_out' = parse_languages(lang_in)
    /\ UNCHANGED <<lang_in, preflight>>
    /\ UNCHANGED cli_vars
    /\ UNCHANGED gui_vars

NextLang == ApplyParseLanguages

SpecLang == InitLang /\ [][NextLang]_vars

(***************************************************************************)
(* Specification of parse_languages as a pure function                     *)
(***************************************************************************)
\* the non-empty lists of supported codes whose joined text fits in MaxLen
CodeLists == UNION {[1..k -> LANGUAGE_CODES] : k \in 1..((MaxLen + 1) \div 3)}

\* C8: parse_languages accepts exactly the comma-joined non-empty lists of
\* supported codes, returns those codes in input order, and otherwise raises
\* and returns no list at all.
C8_ParseLanguagesValidates ==
    lang_out # Pending =>
        /\ lang_out.ok <=> \E L \in CodeLists : Join(L) = lang_in
        /\ lang_out.ok =>
              /\ lang_out.value \in CodeLists
              /\ Join(lang_out.value) = lang_in
        /\ ~lang_out.ok =>
              /\ lang_out.value = <<>>
              /\ lang_out.error = "ArgumentTypeError"

\* an accepted two-code list
C8_Witness ==
    /\ lang_out.ok
    /\ lang_out.value = <<Str_en, Str_es>>

(***************************************************************************)
(* The command-line front end: cli.main                                    *)
(***************************************************************************)
\* util.MODELS.keys(); "large" is parse_args' default
MODELS == {"large"}

\* truthiness of an optional string: None and "" are falsy
Truthy(x) == x # None /\ x # <<>>

\* files that exist on disk when main() runs
ExistingFiles == {"video.mp4"}

ArgvChoices ==
    [version : BOOLEAN,
     file : {"video.mp4", "nofile.mp4"},
     languages : {None, Str_en, Join(<<Str_en, Str_es>>), Join(<<Str_en, <<"x", "x">>>>)},
     model : {"large", "huge"},
     api_key : {None, <<>>, <<"k">>, Str_free}]

EnvChoices ==
    [cuda_cards : {0, 1},
     tool_installed : BOOLEAN,
     key_file : {Missing, <<>>, <<"k", " ">>, Str_free},
     prompt : {<<>>, <<"k">>},
     run_ok : BOOLEAN]

InitCli ==
    /\ argv \in ArgvChoices
    /\ env \in EnvChoices
    /\ cli_pc = "parse_args"
    /\ api_key = None
    /\ key_file = env.key_file
    /\ warned = FALSE
    /\ run_calls = <<>>
    /\ exit_code = <<>> /\ exit_cause = "running"
    /\ preflight = "not_run"
    /\ LangOff
    /\ GuiOff

\* the process ends with this status
Exit(status, cause) ==
    /\ cli_pc' = "exited"
    /\ exit_code' = <<status>>
    /\ exit_cause' = cause

StillRunning == UNCHANGED <<exit_code, exit_cause>>

\* an exception main() does not catch leaves through `raise SystemExit(main())`:
\* the interpreter prints the traceback and the process status is 1
Uncaught(exception) == Exit(1, exception)

\* parse_args(): --version prints and exits 0; parser.error exits 2
parse_args_outcome(a) ==
    IF a.version THEN "version"
    ELSE IF a.languages = None THEN "error"
    ELSE IF ~parse_languages(a.languages).ok THEN "error"
    ELSE IF a.model \notin MODELS THEN "error"
    ELSE IF parse_languages(a.languages).value = <<>> THEN "error"
    ELSE "ok"

CliParseArgs ==
    /\ cli_pc = "parse_args"
    /\ CASE parse_args_outcome(argv) = "version" -> Exit(0, "argparse_version")
         [] parse_args_outcome(argv) = "error" -> Exit(2, "argparse_error")
         [] OTHER -> cli_pc' = "exists" /\ StillRunning
    /\ UNCHANGED <<argv, env, api_key, key_file, warned, run_calls, preflight>>
    /\ UNCHANGED lang_vars
    /\ UNCHANGED gui_vars

\* if not os.path.exists(file): print; return 1
CliCheckFile ==
    /\ cli_pc = "exists"
    /\ IF argv.file \notin ExistingFiles
       THEN Exit(1, "file_does_not_exist")
       ELSE cli_pc' = "ensure_dependencies" /\ StillRunning
    /\ UNCHANGED <<argv, env, api_key, key_file, warned, run_calls, preflight>>
    /\ UNCHANGED lang_vars
    /\ UNCHANGED gui_vars

\* ensure_dependencies(): RuntimeError without a CUDA card, and whatever
\* ensure_transcribe_anything_installed raises when the tool is missing
ensure_dependencies_ok(e) == e.cuda_cards # 0 /\ e.tool_installed

CliEnsureDependencies ==
    /\ cli_pc = "ensure_dependencies"
    /\ IF ensure_dependencies_ok(env)
       THEN /\ preflight' = "passed"
            /\ cli_pc' = "api_key"
            /\ StillRunning
       ELSE /\ preflight' = "failed"
            /\ Uncaught("RuntimeError")
    /\ UNCHANGED <<argv, env, api_key, key_file, warned, run_calls>>
    /\ UNCHANGED lang_vars
    /\ UNCHANGED gui_vars

\* read_api_key(): read_utf8(API_KEY_FILE).strip()
read_api_key(contents) == Strip(contents)

\* lines 112-118 of main, validate_api_key included
CliApiKey ==
    /\ cli_pc = "api_key"
    /\ IF Truthy(argv.api_key)
       THEN /\ api_key' = IF argv.api_key = Str_free THEN None ELSE argv.api_key
            /\ cli_pc' = "warn"
            /\ UNCHANGED key_file
            /\ StillRunning
       ELSE IF key_file = Missing
       THEN /\ Uncaught("FileNotFoundError")
            /\ UNCHANGED <<api_key, key_file>>
       ELSE IF read_api_key(key_file) = <<>>
       THEN /\ key_file' = env.prompt
            /\ api_key' = read_api_key(env.prompt)
            /\ cli_pc' = "warn"
            /\ StillRunning
       ELSE /\ api_key' = read_api_key(key_file)
            /\ cli_pc' = "warn"
            /\ UNCHANGED key_file
            /\ StillRunning
    /\ UNCHANGED <<argv, env, warned, run_calls, preflight>>
    /\ UNCHANGED lang_vars
    /\ UNCHANGED gui_vars

\* if api_key == "free": warnings.warn(...)
warn_needed(k) == k = Str_free

CliWarn ==
    /\ cli_pc = "warn"
    /\ warned' = warn_needed(api_key)
    /\ cli_pc' = "run"
    /\ UNCHANGED <<argv, env, api_key, key_file, run_calls, preflight>>
    /\ StillRunning
    /\ UNCHANGED lang_vars
    /\ UNCHANGED gui_vars

\* run(file=file, deepl_api_key=api_key, out_languages=args.languages, model=args.model)
CliRunCall ==
    /\ cli_pc = "run"
    /\ run_calls' = Append(run_calls,
                           [file |-> argv.file,
                            deepl_api_key |-> api_key,
                            out_languages |-> parse_languages(argv.languages).value,
                            model |-> argv.model])
    /\ cli_pc' = "in_run"
    /\ UNCHANGED <<argv, env, api_key, key_file, warned, preflight>>
    /\ StillRunning
    /\ UNCHANGED lang_vars
    /\ UNCHANGED gui_vars

\* run() returns and main returns 0, or run() raises and nothing catches it
CliRunReturn ==
    /\ cli_pc = "in_run"
    /\ IF env.run_ok THEN Exit(0, "run_returned") ELSE Uncaught("run_raised")
    /\ UNCHANGED <<argv, env, api_key, key_file, warned, run_calls, preflight>>
    /\ UNCHANGED lang_vars
    /\ UNCHANGED gui_vars

\* variant: the interrupt handler reports success
CliKeyboardInterruptReturns0 ==
    /\ cli_pc \in {"parse_args", "exists", "ensure_dependencies", "api_key",
                   "warn", "run", "in_run"}
    /\ Exit(0, "KeyboardInterrupt")
    /\ UNCHANGED <<argv, env, api_key, key_file, warned, run_calls, preflight>>
    /\ UNCHANGED lang_vars
    /\ UNCHANGED gui_vars

\* except KeyboardInterrupt: print; return 1 -- anywhere inside the try block
CliKeyboardInterrupt ==
    /\ cli_pc \in {"parse_args", "exists", "ensure_dependencies", "api_key",
                   "warn", "run", "in_run"}
    /\ Exit(1, "KeyboardInterrupt")
    /\ UNCHANGED <<argv, env, api_key, key_file, warned, run_calls, preflight>>
    /\ UNCHANGED lang_vars
    /\ UNCHANGED gui_vars

NextCli ==
    \/ CliParseArgs
    \/ CliCheckFile
    \/ CliEnsureDependencies
    \/ CliApiKey
    \/ CliWarn
    \/ CliRunCall
    \/ CliRunReturn
    \/ CliKeyboardInterrupt

SpecCli == InitCli /\ [][NextCli]_vars

(***************************************************************************)
(* Claims about the command-line front end                                 *)
(***************************************************************************)
Exited == exit_code # <<>>
RunInvoked == run_calls # <<>>
RunReturnedNormally == exit_cause = "run_returned"

UserSuppliedCredential == Truthy(argv.api_key)

\* C6: the credential handed to run() is None exactly when the user supplied no
\* credential or an empty one, every non-empty credential is handed over
\* unchanged, and an empty key is never passed on as an empty string.
C6_DegradedIffNoCredential ==
    \A i \in 1..Len(run_calls) :
        /\ run_calls[i].deepl_api_key = None <=> ~UserSuppliedCredential
        /\ UserSuppliedCredential => run_calls[i].deepl_api_key = argv.api_key
        /\ run_calls[i].deepl_api_key # <<>>

\* C7: run() is invoked with deepl_api_key None only after the degraded-mode
\* advisory was issued, and the advisory is issued only for calls in degraded
\* mode (an absent credential, or the "free" key the advisory names).
C7_AdvisoryIffDegraded ==
    \A i \in 1..Len(run_calls) :
        /\ run_calls[i].deepl_api_key = None => warned
        /\ warned => run_calls[i].deepl_api_key \in {None, Str_free}

(***************************************************************************)
(* The drag-and-drop front end: gui.MainWidget and gui.run_gui             *)
(***************************************************************************)
\* a path is its directory and its base name; QUrl.toLocalFile() of a URL that
\* is no local file is the empty path
Path(d, b) == [dir |-> d, base |-> b]
EmptyPath == Path("", "")
NoPath == Path("<none>", "<none>")

\* the directories and video files on disk
ExistingDirs == {"home", "A", "B"}
ExistingVideos == {Path("A", "a.mp4"), Path("B", "b.mp4"), Path("B", "a.mp4")}

\* what the user drops on the window
DropFiles == {Path("A", "a.mp4"), Path("B", "b.mp4"), EmptyPath}

\* os.path.dirname, os.path.basename, and the file name without its extension
dirname(p) == p.dir
basename(p) == p.base
Stem(b) ==
    CASE b = "a.mp4" -> "a"
      [] b = "b.mp4" -> "b"
      [] OTHER -> b

\* the input fields the user may set up before a drop
FieldChoices ==
    {[deepl_input |-> <<>>, model_select |-> "large",
      output_text |-> Join(<<Str_en, Str_es>>), webvtt_select |-> "SRT"],
     [deepl_input |-> <<" ", "k">>, model_select |-> "large",
      output_text |-> Str_en, webvtt_select |-> "WEBVTT"],
     [deepl_input |-> <<"k">>, model_select |-> "large",
      output_text |-> Join(<<Str_en, <<"x", "x">>>>), webvtt_select |-> "SRT"]}

\* MainWidget.save_settings: what the fields put into the settings store
SavedSettings(f) ==
    [deepl_key |-> Strip(f.deepl_input),
     model |-> f.model_select,
     languages |-> StripEach(Split(Strip(f.output_text))),
     subtitle_format |-> f.webvtt_select]

\* MainWidget.__init__: the fields as filled in from the settings store
FieldsFrom(st) ==
    [deepl_input |-> st.deepl_key,
     model_select |-> st.model,
     output_text |-> Join(st.languages),
     webvtt_select |-> st.subtitle_format]

\* util.parse_languages as the GUI imports it: the same validation, raising
\* the ValueError that dropEvent catches
util_parse_languages(text) ==
    IF parse_languages(text).ok
    THEN parse_languages(text)
    ELSE Raised("ValueError")

InitGui ==
    /\ settings \in {SavedSettings(f) : f \in FieldChoices}
    /\ fields = FieldsFrom(settings)
    /\ gui_pc = "idle"
    /\ pending = <<>>
    /\ jobs = <<>>
    /\ cwd = "home"
    /\ preflight = "not_run"
    /\ LangOff
    /\ CliOff

\* the user edits the fields between two events
GuiEdit ==
    /\ gui_pc = "idle"
    /\ \E f \in FieldChoices : fields' = f
    /\ fields' # fields
    /\ UNCHANGED <<settings, gui_pc, pending, jobs, cwd, preflight>>
    /\ UNCHANGED lang_vars
    /\ UNCHANGED cli_vars

\* variant: the settings are saved only once the language field has parsed
DropEventSaveAfterParse(files) ==
    /\ gui_pc = "idle"
    /\ Len(jobs) + Len(files) <= MaxJobs
    /\ IF util_parse_languages(fields.output_text).ok
       THEN /\ settings' = SavedSettings(fields)
            /\ pending' = files
            /\ gui_pc' = "callbacks"
       ELSE /\ gui_pc' = "message_box"
            /\ UNCHANGED <<settings, pending>>
    /\ UNCHANGED <<fields, jobs, cwd, preflight>>
    /\ UNCHANGED lang_vars
    /\ UNCHANGED cli_vars

\* MainWidget.dropEvent up to its loop: save_settings(), the files of the
\* event, parse_languages; QMessageBox.critical and return when it raises
DropEvent(files) ==
    /\ gui_pc = "idle"
    /\ Len(jobs) + Len(files) <= MaxJobs
    /\ settings' = SavedSettings(fields)
    /\ IF util_parse_languages(fields.output_text).ok
       THEN /\ pending' = files
            /\ gui_pc' = "callbacks"
       ELSE /\ gui_pc' = "message_box"
            /\ UNCHANGED pending
    /\ UNCHANGED <<fields, jobs, cwd, preflight>>
    /\ UNCHANGED lang_vars
    /\ UNCHANGED cli_vars

\* the user closes the modal error box and dropEvent returns
GuiCloseMessageBox ==
    /\ gui_pc = "message_box"
    /\ gui_pc' = "idle"
    /\ UNCHANGED <<fields, settings, pending, jobs, cwd, preflight>>
    /\ UNCHANGED lang_vars
    /\ UNCHANGED cli_vars

\* the arguments dropEvent passes to on_drop_callback for file f
CallbackArgs(f) ==
    [videofile |-> f,
     deepl_api_key |-> Strip(fields.deepl_input),
     languages |-> StripEach(util_parse_languages(fields.output_text).value),
     model |-> fields.model_select,
     convert_to_webvtt |-> (fields.webvtt_select = "WEBVTT")]

\* the thread callback creates: _generate_subtitles with its arguments, at its
\* first statement, nothing reported yet
NewThread(a) ==
    [video |-> a.videofile,
     videofile |-> a.videofile,
     deeply_api_key |-> IF Truthy(a.deepl_api_key) THEN a.deepl_api_key ELSE None,
     languages |-> a.languages,
     model |-> a.model,
     convert_to_webvtt |-> a.convert_to_webvtt,
     pc |-> "chdir",
     opened |-> NoPath,
     out |-> NoPath,
     error |-> "none",
     said |-> <<>>]

\* ThreadProcessor.add: the thread is registered and starts at once; add does
\* not wait for it
ThreadProcessorAdd(registry, thread) == Append(registry, thread)

\* variant: callback calls _generate_subtitles itself and returns when it is over
CallbackSynchronous ==
    /\ gui_pc = "callbacks"
    /\ pending # <<>>
    /\ LET a == CallbackArgs(Head(pending))
           t == NewThread(a)
       IN  /\ jobs' = ThreadProcessorAdd(jobs,
                         [t EXCEPT !.pc = "returned",
                                   !.said = <<[kind |-> "Error", fmt |-> "none"]>>])
           /\ UNCHANGED cwd
    /\ pending' = Tail(pending)
    /\ gui_pc' = IF Tail(pending) = <<>> THEN "idle" ELSE "callbacks"
    /\ UNCHANGED <<fields, settings, preflight>>
    /\ UNCHANGED lang_vars
    /\ UNCHANGED cli_vars

\* one iteration of dropEvent's loop: run_gui.callback for the next file
Callback ==
    /\ gui_pc = "callbacks"
    /\ pending # <<>>
    /\ jobs' = ThreadProcessorAdd(jobs, NewThread(CallbackArgs(Head(pending))))
    /\ pending' = Tail(pending)
    /\ gui_pc' = IF Tail(pending) = <<>> THEN "idle" ELSE "callbacks"
    /\ UNCHANGED <<fields, settings, cwd, preflight>>
    /\ UNCHANGED lang_vars
    /\ UNCHANGED cli_vars

\* the window is closed: app.exec() returns and sys.exit ends the process, the
\* daemon threads with it
GuiQuit ==
    /\ gui_pc = "idle"
    /\ gui_pc' = "exited"
    /\ UNCHANGED <<fields, settings, pending, jobs, cwd, preflight>>
    /\ UNCHANGED lang_vars
    /\ UNCHANGED cli_vars

ProcessAlive == gui_pc \in {"idle", "callbacks", "message_box"}

ThreadFrame ==
    /\ UNCHANGED <<fields, settings, gui_pc, pending, preflight>>
    /\ UNCHANGED lang_vars
    /\ UNCHANGED cli_vars

\* os.chdir(os.path.dirname(videofile)); videofile = os.path.basename(videofile)
\* -- before the try block: an exception here ends the thread
GenerateChdir(j) ==
    /\ ProcessAlive
    /\ j \in 1..Len(jobs)
    /\ jobs[j].pc = "chdir"
    /\ IF dirname(jobs[j].videofile) \in ExistingDirs
       THEN /\ cwd' = dirname(jobs[j].videofile)
            /\ jobs' = [jobs EXCEPT ![j].videofile = Path("", basename(jobs[j].videofile)),
                                    ![j].pc = "run_open"]
       ELSE /\ jobs' = [jobs EXCEPT ![j].pc = "died",
                                    ![j].error = "chdir:FileNotFoundError"]
            /\ UNCHANGED cwd
    /\ ThreadFrame

\* variant: the handler ends every thread that is still running, not only its own
ExceptBranchEndsAll(j, e) ==
    jobs' = [k \in 1..Len(jobs) |->
                IF jobs[k].pc \in {"returned", "died"}
                THEN jobs[k]
                ELSE [jobs[k] EXCEPT !.pc = "returned",
                                     !.error = e,
                                     !.said = Append(@, [kind |-> "Error", fmt |-> "none"])]]

\* the except branch: print(e); say("Error: " + str(e)); return
ExceptBranch(j, e) ==
    jobs' = [jobs EXCEPT ![j].pc = "returned",
                         ![j].error = e,
                         ![j].said = Append(@, [kind |-> "Error", fmt |-> "none"])]

\* the file a relative name means at this moment
Resolve(p) == IF p.dir = "" THEN Path(cwd, p.base) ELSE p

\* run(): the input file it opens, and the output directory it writes, named
\* after the file and placed beside it
run_input(file) == Resolve(file)
run_output_dir(file) == Path(Resolve(file).dir, Stem(file.base))

\* run(file=videofile, ...) opens its input: the relative name is resolved
\* against the working directory of that moment
GenerateRunOpen(j) ==
    /\ ProcessAlive
    /\ j \in 1..Len(jobs)
    /\ jobs[j].pc = "run_open"
    /\ IF run_input(jobs[j].videofile) \in ExistingVideos
       THEN jobs' = [jobs EXCEPT ![j].opened = run_input(jobs[j].videofile),
                                 ![j].pc = "run_write"]
       ELSE ExceptBranch(j, "run:FileNotFoundError")
    /\ UNCHANGED cwd
    /\ ThreadFrame

\* run() finishes: a stage fails and run raises, or the subtitles are written
\* to the directory named after the file, next to the relative name, and run
\* returns that directory
GenerateRunWrite(j) ==
    /\ ProcessAlive
    /\ j \in 1..Len(jobs)
    /\ jobs[j].pc = "run_write"
    /\ \/ ExceptBranch(j, "run:StageError")
       \/ jobs' = [jobs EXCEPT ![j].out = run_output_dir(jobs[j].videofile),
                               ![j].pc = "open_folder"]
    /\ UNCHANGED cwd
    /\ ThreadFrame

\* open_folder(out), then say("Attention: ... has completed ..."); the opener
\* may be missing, and Popen then raises outside the try block
GenerateAnnounce(j) ==
    /\ ProcessAlive
    /\ j \in 1..Len(jobs)
    /\ jobs[j].pc = "open_folder"
    /\ \/ jobs' = [jobs EXCEPT ![j].pc = "died",
                               ![j].error = "open_folder:OSError"]
       \/ jobs' = [jobs EXCEPT ![j].pc = "returned",
                               ![j].said = Append(@,
                                   [kind |-> "Attention",
                                    fmt |-> IF jobs[j].convert_to_webvtt
                                            THEN "WEBVTT" ELSE "SRT"])]
    /\ UNCHANGED cwd
    /\ ThreadFrame

\* sequences of dropped files that still fit in the job bound
DropLists == UNION {[1..k -> DropFiles] : k \in 1..MaxJobs}

NextGui ==
    \/ GuiEdit
    \/ \E files \in DropLists : DropEvent(files)
    \/ GuiCloseMessageBox
    \/ Callback
    \/ GuiQuit
    \/ \E j \in 1..MaxJobs : GenerateChdir(j)
    \/ \E j \in 1..MaxJobs : GenerateRunOpen(j)
    \/ \E j \in 1..MaxJobs : GenerateRunWrite(j)
    \/ \E j \in 1..MaxJobs : GenerateAnnounce(j)

SpecGui == InitGui /\ [][NextGui]_vars

(***************************************************************************)
(* Claims about the drag-and-drop front end                                *)
(***************************************************************************)
JobIds == 1..Len(jobs)
Ended(j) == jobs[j].pc \in {"returned", "died"}
Succeeded(j) ==
    /\ jobs[j].pc = "returned"
    /\ jobs[j].error = "none"
Announced(j, kind) == \E n \in 1..Len(jobs[j].said) : jobs[j].said[n].kind = kind

\* C2: every job whose thread has ended has delivered exactly one completion
\* report, the success announcement or the error announcement.
C2_ExactlyOneReport ==
    \A j \in JobIds : Ended(j) => Len(jobs[j].said) = 1

\* the failure is the job's own: a stage of its pipeline or the folder opener
OwnFailure(j) == jobs[j].error \in {"run:StageError", "open_folder:OSError"}

\* C3: jobs submitted together for different existing videos all succeed, each
\* pipeline runs on the video it was submitted with, and no two of them share
\* an output directory.
C3_ConcurrentJobsIndependent ==
    /\ \A j \in JobIds :
          /\ jobs[j].opened # NoPath => jobs[j].opened = jobs[j].video
          /\ (Ended(j) /\ jobs[j].video \in ExistingVideos /\ ~OwnFailure(j)) =>
                /\ Succeeded(j)
                /\ jobs[j].out = Path(jobs[j].video.dir, Stem(jobs[j].video.base))
    /\ \A i, j \in JobIds :
          (i # j /\ jobs[i].video # jobs[j].video
                 /\ jobs[i].out # NoPath /\ jobs[j].out # NoPath) =>
             jobs[i].out # jobs[j].out

\* job j raises an exception in this step
Raises(j) ==
    /\ j \in JobIds
    /\ jobs[j].error = "none"
    /\ jobs'[j].error # "none"

\* C4: a step in which one job raises changes nothing of any other job, of the
\* working directory or of the GUI thread, and a job that has reached its
\* terminal state keeps it whatever the other jobs do.
C4_FailureIsolated ==
    [][/\ \A j \in JobIds :
             Raises(j) =>
                /\ \A k \in JobIds : k # j => jobs'[k] = jobs[k]
                /\ cwd' = cwd
                /\ gui_pc' = gui_pc
                /\ pending' = pending
       /\ \A k \in JobIds : Ended(k) => jobs'[k] = jobs[k]]_vars

\* one job has failed while another, submitted with it, went on to succeed
C4_Witness ==
    \E i, j \in JobIds :
        /\ i < j
        /\ jobs[i].error = "run:StageError"
        /\ Announced(i, "Error")
        /\ Succeeded(j)
        /\ Announced(j, "Attention")

\* C5: run() is never invoked, and no job is submitted, for an unsupported
\* language code, a missing input file or before the hardware/tool preflight
\* has passed.
C5_ValidatedBeforeSubmission ==
    /\ RunInvoked =>
          /\ parse_languages(argv.languages).ok
          /\ argv.file \in ExistingFiles
          /\ preflight = "passed"
    /\ pending # <<>> => util_parse_languages(fields.output_text).ok
    /\ \A j \in JobIds :
          /\ \A n \in 1..Len(jobs[j].languages) : jobs[j].languages[n] \in LANGUAGE_CODES
          /\ preflight = "passed"

\* callback returns in this step: one more thread is registered
CallbackReturns == Len(jobs') = Len(jobs) + 1

DropRejected == gui_pc = "idle" /\ gui_pc' = "message_box"

\* C10 (as stated): a drop rejected for its language field leaves the settings
\* store unchanged.
C10_RejectedDropLeavesSettings ==
    [][DropRejected => settings' = settings]_vars

\* C10 (amended): every drop, rejected or not, has written the fields to the
\* settings store before the language field is validated.
C10_EveryDropSavesSettings ==
    gui_pc \in {"message_box", "callbacks"} => settings = SavedSettings(fields)

\* a rejected drop after which the store holds the unsupported language list
C10_Witness ==
    /\ gui_pc = "message_box"
    /\ settings = SavedSettings(fields)
    /\ \E n \in 1..Len(settings.languages) : settings.languages[n] \notin LANGUAGE_CODES

====
